---------------------------- MODULE Spec2Model ----------------------------
(***************************************************************************)
(* A model of the LinkedIn post preprocessing pipeline (preprocess.py):    *)
(* the Unicode cleaner, the JSON-from-text parser, the LLM metadata        *)
(* extractor with its retry loop, the keyword fallback and the batch loop. *)
(*                                                                         *)
(* A Python str is a sequence of code points; each code point is written   *)
(* as a one-character string, except the three named below.  Python values *)
(* (JSON data) are tagged records [t |-> <type>, v |-> <payload>].         *)
(***************************************************************************)
EXTENDS Integers, Sequences, FiniteSets, TLC

VARIABLES
    mode,       \* which entry point is being exercised
    fText,      \* get_fallback_metadata: argument
    fOut,       \* get_fallback_metadata: returned dict
    fWords,     \* the words fText was assembled from (input bookkeeping)
    sIn,        \* clean_data_recursively: argument
    sOnce,      \* clean_data_recursively(sIn)
    sTwice,     \* clean_data_recursively(sOnce)
    pText,      \* extract_json_from_text: argument
    pFenced,    \* the object inside pText's json code block (None: no block)
    pOut,       \* extract_json_from_text(pText)
    rPost,      \* extract_metadata_with_retry: argument post
    rMax,       \* extract_metadata_with_retry: argument max_retries
    rAttempt,   \* the loop variable attempt
    rPc,        \* "idle", "loop", "break", "done" (returned), "raised"
    rEvents,    \* the extractor calls and sleeps made so far, in order
    rResult,    \* the returned dict
    rSource,    \* which return statement produced rResult
    bInput,     \* process_posts: the posts as loaded from the raw file
    posts,      \* the loaded list, whose items the loop updates in place
    bIdx,       \* the index of the post being processed, from 1
    bPc,        \* "idle", "next", "retry", "written" (returned), "raised"
    enriched_posts,
    bSaved      \* the cleaned data handed to json.dump

vars == <<mode, fText, fOut, fWords, sIn, sOnce, sTwice, pText, pFenced, pOut,
          rPost, rMax, rAttempt, rPc, rEvents, rResult, rSource,
          bInput, posts, bIdx, bPc, enriched_posts, bSaved>>

fallbackVars == <<fText, fOut, fWords>>
sanitizeVars == <<sIn, sOnce, sTwice>>
parserVars == <<pText, pFenced, pOut>>
retryVars == <<rPost, rMax, rAttempt, rPc, rEvents, rResult, rSource>>
batchVars == <<bInput, posts, bIdx, bPc, enriched_posts, bSaved>>

\* Python's None
None == [t |-> "none", v |-> 0]
\* placeholder of a variable whose call has not happened yet
NotCalled == [t |-> "pending", v |-> 0]

IdleFallback == fText = <<>> /\ fOut = NotCalled /\ fWords = <<>>
IdleSanitize == sIn = NotCalled /\ sOnce = NotCalled /\ sTwice = NotCalled
IdleParser == pText = <<>> /\ pFenced = None /\ pOut = NotCalled
IdleRetry ==
    /\ rPost = <<>> /\ rMax = 0 /\ rAttempt = 0 /\ rPc = "idle"
    /\ rEvents = <<>> /\ rResult = NotCalled /\ rSource = "none"
IdleBatch ==
    /\ bInput = <<>> /\ posts = <<>> /\ bIdx = 0 /\ bPc = "idle"
    /\ enriched_posts = <<>> /\ bSaved = NotCalled

-----------------------------------------------------------------------------
(* Python str primitives *)

\* a str literal as its sequence of code points
Chars(s) == [i \in 1..Len(s) |-> SubSeq(s, i, i)]

HiSurrogate == "U+D800"
LoSurrogate == "U+DFFF"
Replacement == "U+FFFD"
\* the grave accent, which a TLA+ string cannot hold
Backtick == "U+0060"

UpperCase == "ABCDEFGHIJKLMNOPQRSTUVWXYZ"
LowerCase == "abcdefghijklmnopqrstuvwxyz"

UpperChars == {SubSeq(UpperCase, i, i) : i \in 1..Len(UpperCase)}

LowerOf ==
    [c \in UpperChars |->
        LET i == CHOOSE i \in 1..Len(UpperCase) : SubSeq(UpperCase, i, i) = c
        IN  SubSeq(LowerCase, i, i)]

\* str.lower() on one code point
LowerChar(c) == IF c \in UpperChars THEN LowerOf[c] ELSE c

\* str.lower()
Lower(s) == [i \in 1..Len(s) |-> LowerChar(s[i])]

\* the Python expression  k in s  on two str
Contains(s, k) ==
    \E i \in 1..(Len(s) - Len(k) + 1) : \A j \in 1..Len(k) : s[i + j - 1] = k[j]

\* len(s.split('\n')): one more than the number of newlines
SplitLinesCount(s) == Cardinality({i \in 1..Len(s) : s[i] = "\n"}) + 1

RECURSIVE Concat(_)
\* ''.join(parts)
Concat(parts) ==
    IF parts = <<>> THEN <<>> ELSE Head(parts) \o Concat(Tail(parts))

\* Python value constructors
PyStr(s) == [t |-> "str", v |-> s]
PyInt(n) == [t |-> "int", v |-> n]
PyList(items) == [t |-> "list", v |-> items]
PyTuple(items) == [t |-> "tuple", v |-> items]
\* a dict is its insertion-ordered sequence of entries, keys pairwise distinct
PyDict(entries) == [t |-> "dict", v |-> entries]
Entry(k, x) == [k |-> k, x |-> x]

-----------------------------------------------------------------------------
(* clean_unicode, clean_data_recursively *)

Surrogates == {HiSurrogate, LoSurrogate}

\* a character class that stops short of the low surrogates
IsHighSurrogateOnly(c) == c = HiSurrogate

\* the character class [\ud800-\udfff]
IsSurrogate(c) == c \in Surrogates

\* text.encode('utf-8', 'strict') succeeds: no code point is a surrogate
EncodesStrict(s) == \A i \in 1..Len(s) : s[i] \notin Surrogates

\* re.sub(r'[\ud800-\udfff]', U+FFFD, text)
SubSurrogates(s) ==
    [i \in 1..Len(s) |-> IF IsSurrogate(s[i]) THEN Replacement ELSE s[i]]

Digits == "0123456789"

RECURSIVE Decimal(_)
\* str(n) of a non-negative int
Decimal(n) ==
    IF n < 10 THEN <<SubSeq(Digits, n + 1, n + 1)>>
    ELSE Decimal(n \div 10) \o <<SubSeq(Digits, (n % 10) + 1, (n % 10) + 1)>>

\* str(x), for the value types modelled (str, int, None)
BuiltinStr(x) ==
    CASE x.t = "str" -> x.v
      [] x.t = "int" -> Decimal(x.v)
      [] x.t = "none" -> Chars("None")

clean_unicode(text) ==
    IF text.t # "str" THEN PyStr(BuiltinStr(text))
    ELSE IF EncodesStrict(text.v) THEN text
    ELSE PyStr(SubSurrogates(text.v))

\* d[k] = x on an insertion-ordered dict
DictSet(entries, k, x) ==
    IF \E i \in 1..Len(entries) : entries[i].k = k
    THEN [i \in 1..Len(entries) |->
             IF entries[i].k = k THEN Entry(k, x) ELSE entries[i]]
    ELSE Append(entries, Entry(k, x))

RECURSIVE clean_data_recursively(_)
RECURSIVE CleanEntries(_, _)
\* the dict comprehension, entries inserted left to right
CleanEntries(entries, acc) ==
    IF entries = <<>> THEN acc
    ELSE CleanEntries(Tail(entries),
                      DictSet(acc, clean_unicode(PyStr(BuiltinStr(Head(entries).k))),
                              clean_data_recursively(Head(entries).x)))

clean_data_recursively(obj) ==
    CASE obj.t = "str" -> clean_unicode(obj)
      [] obj.t = "dict" -> PyDict(CleanEntries(obj.v, <<>>))
      [] obj.t \in {"list", "tuple"} ->
            PyList([i \in 1..Len(obj.v) |-> clean_data_recursively(obj.v[i])])
      [] OTHER -> obj

-----------------------------------------------------------------------------
(* Driving clean_data_recursively directly *)

MaxStrLen == 2
MaxItems == 2

CodeUnits == {"a", HiSurrogate, LoSurrogate, Replacement}

Strings == UNION {[1..n -> CodeUnits] : n \in 0..MaxStrLen}

LeafPool ==
    {PyStr(<<"a">>), PyStr(<<HiSurrogate>>), PyStr(<<"a", LoSurrogate>>), PyInt(1)}

KeyPool ==
    {PyStr(<<"1">>), PyInt(1), PyStr(<<HiSurrogate>>), PyStr(<<LoSurrogate>>),
     PyStr(<<Replacement>>)}

DistinctKeys(entries) ==
    \A i, j \in 1..Len(entries) : i # j => entries[i].k # entries[j].k

FlatSeqs == UNION {[1..n -> LeafPool] : n \in 0..MaxItems}

FlatEntries ==
    {e \in UNION {[1..n -> [k : KeyPool, x : LeafPool]] : n \in 0..MaxItems} :
        DistinctKeys(e)}

FlatContainers ==
    {PyList(q) : q \in FlatSeqs} \cup {PyTuple(q) : q \in FlatSeqs}
        \cup {PyDict(e) : e \in FlatEntries}

NestedContainers ==
    {PyList(<<c>>) : c \in FlatContainers}
        \cup {PyDict(<<Entry(k, c)>>) : k \in KeyPool, c \in FlatContainers}

SanitizeInputs ==
    {PyStr(s) : s \in Strings} \cup {PyInt(1), None}
        \cup FlatContainers \cup NestedContainers

InitSanitize ==
    /\ mode = "sanitize"
    /\ sIn \in SanitizeInputs
    /\ sOnce = NotCalled /\ sTwice = NotCalled
    /\ IdleFallback /\ IdleParser /\ IdleRetry /\ IdleBatch

CleanOnce ==
    /\ mode = "sanitize"
    /\ sOnce = NotCalled
    /\ sOnce' = clean_data_recursively(sIn)
    /\ UNCHANGED <<mode, sIn, sTwice, fallbackVars, parserVars, retryVars, batchVars>>

CleanTwice ==
    /\ mode = "sanitize"
    /\ sOnce # NotCalled /\ sTwice = NotCalled
    /\ sTwice' = clean_data_recursively(sOnce)
    /\ UNCHANGED <<mode, sIn, sOnce, fallbackVars, parserVars, retryVars, batchVars>>

NextSanitize == CleanOnce \/ CleanTwice

SpecSanitize == InitSanitize /\ [][NextSanitize]_vars

-----------------------------------------------------------------------------
(* extract_json_from_text *)

\* the regular-expression class \s, on the characters the texts use
IsSpace(c) == c \in {" ", "\t", "\n", "\r", "\f"}

\* the end of the longest run of \s starting at j: the first non-space index
SkipSpace(s, j) ==
    CHOOSE k \in j..(Len(s) + 1) :
        /\ \A m \in j..(k - 1) : IsSpace(s[m])
        /\ k = Len(s) + 1 \/ ~IsSpace(s[k])

\* str.strip()
Strip(s) ==
    IF \A i \in 1..Len(s) : IsSpace(s[i]) THEN <<>>
    ELSE LET a == CHOOSE i \in 1..Len(s) :
                      ~IsSpace(s[i]) /\ \A m \in 1..(i - 1) : IsSpace(s[m])
             b == CHOOSE i \in 1..Len(s) :
                      ~IsSpace(s[i]) /\ \A m \in (i + 1)..Len(s) : IsSpace(s[m])
         IN  SubSeq(s, a, b)

\* the markdown fence: three grave accents
Fence == <<Backtick, Backtick, Backtick>>

\* a fence at index i
FenceAt(s, i) == i >= 1 /\ i + 2 <= Len(s) /\ SubSeq(s, i, i + 2) = Fence

\* (?:json)? under re.IGNORECASE at index j: the index after it.  Leaving a
\* present label unconsumed cannot match, \s*\{ does not accept its letter.
AfterLabel(s, j) ==
    IF j + 3 <= Len(s) /\ Lower(SubSeq(s, j, j + 3)) = Chars("json")
    THEN j + 4 ELSE j

\* FENCE(?:json)?\s*(\{ anchored at fence index i: the index of the brace, 0 if
\* the pattern does not match that far
BlockOpen(s, i) ==
    IF ~FenceAt(s, i) THEN 0
    ELSE LET p == SkipSpace(s, AfterLabel(s, i + 3))
         IN  IF p <= Len(s) /\ s[p] = "{" THEN p ELSE 0

\* .*?\})\s*FENCE from the brace at p: the indices q of a closing brace that is
\* followed by optional space and a fence
BlockCloses(s, p) ==
    {q \in (p + 1)..Len(s) : s[q] = "}" /\ FenceAt(s, SkipSpace(s, q + 1))}

Least(S) == CHOOSE x \in S : \A y \in S : x <= y

\* the fence indices at which json_block_pattern matches
BlockStarts(s) ==
    {i \in 1..Len(s) : BlockOpen(s, i) # 0 /\ BlockCloses(s, BlockOpen(s, i)) # {}}

\* Method 1: re.search takes the leftmost start, .*? the nearest close
MarkdownBlock(s) ==
    IF BlockStarts(s) = {} THEN None
    ELSE LET p == BlockOpen(s, Least(BlockStarts(s)))
         IN  PyStr(Strip(SubSeq(s, p, Least(BlockCloses(s, p)))))

IsBrace(c) == c \in {"{", "}"}

\* the first brace at or after j, 0 if none: the end of [^{}]*
NextBrace(s, j) ==
    IF \E k \in j..Len(s) : IsBrace(s[k])
    THEN Least({k \in j..Len(s) : IsBrace(s[k])})
    ELSE 0

RECURSIVE ObjectEnd(_, _)
\* [^{}]*(?:\{[^{}]*\}[^{}]*)*\} from index j inside an object: the index of
\* its closing brace, 0 if json_pattern fails
ObjectEnd(s, j) ==
    LET b == NextBrace(s, j)
    IN  IF b = 0 THEN 0
        ELSE IF s[b] = "}" THEN b
        ELSE LET c == NextBrace(s, b + 1)
             IN  IF c = 0 \/ s[c] = "{" THEN 0 ELSE ObjectEnd(s, c + 1)

RECURSIVE FindAllObjects(_, _)
\* re.findall(json_pattern, text): non-overlapping matches, scanning from pos
FindAllObjects(s, pos) ==
    IF pos > Len(s) THEN <<>>
    ELSE IF s[pos] = "{" /\ ObjectEnd(s, pos + 1) # 0
         THEN <<SubSeq(s, pos, ObjectEnd(s, pos + 1))>>
                  \o FindAllObjects(s, ObjectEnd(s, pos + 1) + 1)
         ELSE FindAllObjects(s, pos + 1)

\* max(matches, key=len): the first match of the greatest length
LongestFirst(matches) ==
    matches[Least({i \in 1..Len(matches) :
                      \A j \in 1..Len(matches) : Len(matches[j]) <= Len(matches[i])})]

\* Method 2
StandaloneObject(s) ==
    IF FindAllObjects(s, 1) = <<>> THEN None
    ELSE PyStr(Strip(LongestFirst(FindAllObjects(s, 1))))

\* text.find('{'), text.rfind('}'), 0 for Python's -1
Find(s, c) ==
    IF \E i \in 1..Len(s) : s[i] = c
    THEN Least({i \in 1..Len(s) : s[i] = c}) ELSE 0

RFind(s, c) ==
    IF \E i \in 1..Len(s) : s[i] = c
    THEN CHOOSE i \in 1..Len(s) : s[i] = c /\ \A j \in (i + 1)..Len(s) : s[j] # c
    ELSE 0

\* Method 3
FirstToLastBrace(s) ==
    LET start_idx == Find(s, "{")
        end_idx == RFind(s, "}")
    IN  IF start_idx # 0 /\ end_idx # 0 /\ start_idx < end_idx
        THEN PyStr(Strip(SubSeq(s, start_idx, end_idx)))
        ELSE None

extract_json_from_text(text) ==
    IF MarkdownBlock(text) # None THEN MarkdownBlock(text)
    ELSE IF StandaloneObject(text) # None THEN StandaloneObject(text)
    ELSE FirstToLastBrace(text)

-----------------------------------------------------------------------------
(* Driving extract_json_from_text directly: model replies, written as a     *)
(* markdown document of prose, brace text and code blocks                   *)

MaxSegments == 2

Segments ==
    << Chars("Here is the JSON:\n"),
       Chars("{x} "),
       Chars("{\"note\": {\"why\": \"longer than the answer\"}}\n"),
       Fence \o Chars("py\nd = 1\n") \o Fence \o Chars("\n"),
       Chars("} {{ "),
       Chars("{ {{x}} }") >>

Objects ==
    << Chars("{\"line_count\": 3, \"language\": \"English\", \"tags\": [\"tech\"]}"),
       Chars("{\"a\": {\"b\": 1}}"),
       Chars("{}") >>

Labels == {<<>>, Chars("json"), Chars("JSON")}
Paddings == {<<>>, Chars("\n")}

SegmentLists == UNION {[1..n -> 1..Len(Segments)] : n \in 0..MaxSegments}

Document(segs) == Concat([i \in 1..Len(segs) |-> Segments[segs[i]]])

InitParser ==
    /\ mode = "parser"
    /\ \E before \in SegmentLists, after \in SegmentLists :
          \/ /\ pFenced = None
             /\ pText = Document(before)
             /\ after = <<>>
          \/ \E o \in 1..Len(Objects), label \in Labels, pad \in Paddings :
                /\ Len(after) <= 1
                /\ pFenced = PyStr(Objects[o])
                /\ pText = Document(before) \o Fence \o label \o pad
                               \o Objects[o] \o pad \o Fence \o Document(after)
    /\ pOut = NotCalled
    /\ IdleFallback /\ IdleSanitize /\ IdleRetry /\ IdleBatch

CallParser ==
    /\ mode = "parser"
    /\ pOut = NotCalled
    /\ pOut' = extract_json_from_text(pText)
    /\ UNCHANGED <<mode, pText, pFenced, fallbackVars, sanitizeVars, retryVars, batchVars>>

NextParser == CallParser

SpecParser == InitParser /\ [][NextParser]_vars

-----------------------------------------------------------------------------
(* get_fallback_metadata *)

french_words ==
    << Chars("le"), Chars("la"), Chars("les"), Chars("de"), Chars("du"),
       Chars("des"), Chars("et"), Chars("est"), Chars("une"), Chars("un"),
       Chars("ce"), Chars("cette") >>

\* the dict literal, in insertion order
linkedin_keywords ==
    << [tag |-> Chars("career"),
        keywords |-> <<Chars("career"), Chars("job"), Chars("work"),
                       Chars("employment")>>],
       [tag |-> Chars("business"),
        keywords |-> <<Chars("business"), Chars("company"), Chars("startup"),
                       Chars("entrepreneur")>>],
       [tag |-> Chars("tech"),
        keywords |-> <<Chars("technology"), Chars("tech"), Chars("ai"),
                       Chars("digital"), Chars("software")>>],
       [tag |-> Chars("leadership"),
        keywords |-> <<Chars("leadership"), Chars("management"),
                       Chars("team"), Chars("leader")>>],
       [tag |-> Chars("marketing"),
        keywords |-> <<Chars("marketing"), Chars("brand"),
                       Chars("social media")>>],
       [tag |-> Chars("networking"),
        keywords |-> <<Chars("network"), Chars("connection"),
                       Chars("professional")>>] >>

\* sum(1 for word in french_words if word in text_lower)
FrenchCount(text_lower) ==
    Cardinality({i \in 1..Len(french_words) :
                    Contains(text_lower, french_words[i])})

French == Chars("French")
English == Chars("English")

DetectLanguage(post) ==
    IF FrenchCount(Lower(post)) > 3 THEN French ELSE English

\* any(keyword in post_lower for keyword in keywords)
AnyKeyword(post_lower, keywords) ==
    \E j \in 1..Len(keywords) : Contains(post_lower, keywords[j])

\* the cap checked one tag late
TagLimitReachedLate(tags) == Len(tags) >= 3

\* if len(tags) >= 2: break
TagLimitReached(tags) == Len(tags) >= 2

RECURSIVE TagLoop(_, _, _)
\* the for loop over linkedin_keywords.items(), from entry i on
TagLoop(post_lower, i, tags) ==
    IF i > Len(linkedin_keywords) THEN tags
    ELSE IF AnyKeyword(post_lower, linkedin_keywords[i].keywords)
         THEN LET tags2 == Append(tags, linkedin_keywords[i].tag)
              IN  IF TagLimitReached(tags2) THEN tags2
                  ELSE TagLoop(post_lower, i + 1, tags2)
         ELSE TagLoop(post_lower, i + 1, tags)

ExtractTags(post) == TagLoop(Lower(post), 1, <<>>)

MetadataDict(line_count, language, tags) ==
    PyDict(<< Entry(PyStr(Chars("line_count")), PyInt(line_count)),
              Entry(PyStr(Chars("language")), PyStr(language)),
              Entry(PyStr(Chars("tags")),
                    PyList([i \in 1..Len(tags) |-> PyStr(tags[i])])) >>)

get_fallback_metadata(post) ==
    MetadataDict(SplitLinesCount(post), DetectLanguage(post), ExtractTags(post))

-----------------------------------------------------------------------------
(* Driving get_fallback_metadata directly *)

MaxWords == 4

Vocabulary ==
    << Chars("Job"), Chars("startup"), Chars("AI"), Chars("teamwork"),
       Chars("social media network"), Chars("le"), Chars("latest des") >>

Separators == {Chars(" "), Chars("\n")}

RECURSIVE Join(_, _)
\* sep.join(words)
Join(words, sep) ==
    IF words = <<>> THEN <<>>
    ELSE IF Len(words) = 1 THEN Head(words)
    ELSE Head(words) \o sep \o Join(Tail(words), sep)

WordLists ==
    UNION {[1..n -> 1..Len(Vocabulary)] : n \in 0..MaxWords}

InitFallback ==
    /\ mode = "fallback"
    /\ fWords \in WordLists
    /\ \E sep \in Separators :
          fText = Join([i \in 1..Len(fWords) |-> Vocabulary[fWords[i]]], sep)
    /\ fOut = NotCalled
    /\ IdleSanitize /\ IdleParser /\ IdleRetry /\ IdleBatch

CallFallback ==
    /\ mode = "fallback"
    /\ fOut = NotCalled
    /\ fOut' = get_fallback_metadata(fText)
    /\ UNCHANGED <<mode, fText, fWords, sanitizeVars, parserVars, retryVars, batchVars>>

NextFallback == CallFallback

SpecFallback == InitFallback /\ [][NextFallback]_vars

-----------------------------------------------------------------------------
(* extract_metadata: one call of the LLM chain, then parsing of its reply *)

\* what a call does: return a value, or raise an exception with a message
Returned(value) == [ok |-> TRUE, value |-> value, exc |-> "", msg |-> <<>>]
Raised(exc, msg) == [ok |-> FALSE, value |-> None, exc |-> exc, msg |-> msg]

\* what chain.invoke does: a response with content, or an exception
Completion(text) == [raises |-> FALSE, text |-> text, msg |-> <<>>]
ApiError(msg) == [raises |-> TRUE, text |-> <<>>, msg |-> msg]

\* json.loads on the documents the replies below can yield, as CPython
\* decodes them: the decoded value, or the JSONDecodeError message
JsonDocuments ==
    << [doc |-> Chars("{\"line_count\": 3, \"language\": \"English\", \"tags\": [\"tech\"]}"),
        out |-> Returned(PyDict(<<
                   Entry(PyStr(Chars("line_count")), PyInt(3)),
                   Entry(PyStr(Chars("language")), PyStr(Chars("English"))),
                   Entry(PyStr(Chars("tags")), PyList(<<PyStr(Chars("tech"))>>)) >>))],
       [doc |-> Chars("{\"line_count\": 2, \"language\": \"French\", \"tags\": []}"),
        out |-> Returned(PyDict(<<
                   Entry(PyStr(Chars("line_count")), PyInt(2)),
                   Entry(PyStr(Chars("language")), PyStr(Chars("French"))),
                   Entry(PyStr(Chars("tags")), PyList(<<>>)) >>))],
       [doc |-> Chars("{\"language\": \"Spanish\", \"tags\": [\"a\", \"b\", \"c\"]}"),
        out |-> Returned(PyDict(<<
                   Entry(PyStr(Chars("language")), PyStr(Chars("Spanish"))),
                   Entry(PyStr(Chars("tags")),
                         PyList(<<PyStr(Chars("a")), PyStr(Chars("b")),
                                  PyStr(Chars("c"))>>)) >>))],
       [doc |-> Chars("{\"line_count\": }"),
        out |-> Raised("JSONDecodeError",
                       Chars("Expecting value: line 1 column 16 (char 15)"))],
       [doc |-> Chars("{line_count: 3}"),
        out |-> Raised("JSONDecodeError",
                       Chars("Expecting property name enclosed in double quotes: line 1 column 2 (char 1)"))] >>

json_loads(s) ==
    JsonDocuments[CHOOSE i \in 1..Len(JsonDocuments) : JsonDocuments[i].doc = s].out

\* if not json_str
Falsy(x) == x = None \/ (x.t = "str" /\ x.v = <<>>)

\* the prompt is built from the post and sent; what comes back is the
\* completion, which does not depend on the prompt in any way the code sees
extract_metadata(post, completion) ==
    IF completion.raises THEN Raised("APIError", completion.msg)
    ELSE LET text == Strip(completion.text)
             json_str == extract_json_from_text(text)
         IN  IF Falsy(json_str)
             THEN Raised("ValueError", Chars("No valid JSON found in response"))
             ELSE json_loads(json_str.v)

-----------------------------------------------------------------------------
(* extract_metadata_with_retry *)

DefaultMaxRetries == 3

\* an except clause that names the API error only
ExceptionCaughtApiOnly(exc) == exc = "APIError"

\* except Exception: every exception class the call raises derives from it
ExceptionCaught(exc) == exc \in {"APIError", "ValueError", "JSONDecodeError"}

\* the same test with "json" in place of "invalid json output"
IsRetryableLoose(error_msg) ==
    \/ Contains(error_msg, Chars("503"))
    \/ Contains(error_msg, Chars("service unavailable"))
    \/ Contains(error_msg, Chars("json"))
    \/ Contains(error_msg, Chars("expecting value"))
    \/ Contains(error_msg, Chars("context too big"))

\* the condition of the if at the head of the except block
IsRetryableMessage(error_msg) ==
    \/ Contains(error_msg, Chars("503"))
    \/ Contains(error_msg, Chars("service unavailable"))
    \/ Contains(error_msg, Chars("invalid json output"))
    \/ Contains(error_msg, Chars("expecting value"))
    \/ Contains(error_msg, Chars("context too big"))

\* wait_time = (2 ** attempt) * 5
WaitTime(attempt) == (2 ^ attempt) * 5

\* the sleep taken after the last attempt too
SleepsAlways(attempt, max_retries) == attempt < max_retries

\* if attempt < max_retries - 1
SleepsBeforeRetry(attempt, max_retries) == attempt < max_retries - 1

CallEvent(out) ==
    [ev |-> "call", ok |-> out.ok, value |-> out.value, msg |-> out.msg, d |-> 0]
SleepEvent(d) ==
    [ev |-> "sleep", ok |-> FALSE, value |-> None, msg |-> <<>>, d |-> d]

\* one iteration of the for loop: the call, and what follows its outcome
Attempt(completion) ==
    /\ rPc = "loop" /\ rAttempt < rMax
    /\ LET out == extract_metadata(rPost, completion)
       IN  IF out.ok
           THEN /\ rEvents' = Append(rEvents, CallEvent(out))
                /\ rResult' = out.value
                /\ rSource' = "model"
                /\ rPc' = "done"
                /\ UNCHANGED rAttempt
           ELSE IF ~ExceptionCaught(out.exc)
           THEN /\ rEvents' = Append(rEvents, CallEvent(out))
                /\ rPc' = "raised"
                /\ UNCHANGED <<rAttempt, rResult, rSource>>
           ELSE IF IsRetryableMessage(Lower(out.msg))
           THEN /\ rEvents' =
                      IF SleepsBeforeRetry(rAttempt, rMax)
                      THEN rEvents \o <<CallEvent(out), SleepEvent(WaitTime(rAttempt))>>
                      ELSE Append(rEvents, CallEvent(out))
                /\ rAttempt' = rAttempt + 1
                /\ UNCHANGED <<rPc, rResult, rSource>>
           ELSE /\ rEvents' = Append(rEvents, CallEvent(out))
                /\ rPc' = "break"
                /\ UNCHANGED <<rAttempt, rResult, rSource>>
    /\ UNCHANGED <<rPost, rMax>>

\* after the loop: return get_fallback_metadata(post)
ReturnFallback ==
    /\ \/ rPc = "loop" /\ rAttempt >= rMax
       \/ rPc = "break"
    /\ rResult' = get_fallback_metadata(rPost)
    /\ rSource' = "fallback"
    /\ rPc' = "done"
    /\ UNCHANGED <<rPost, rMax, rAttempt, rEvents>>

\* the replies of the LLM chain that are tried
Completions ==
    { Completion(Chars("{\"line_count\": 3, \"language\": \"English\", \"tags\": [\"tech\"]}\n")),
      Completion(Chars("Here is the JSON:\n") \o Fence \o Chars("json\n")
                     \o Chars("{\"line_count\": 2, \"language\": \"French\", \"tags\": []}")
                     \o Chars("\n") \o Fence),
      Completion(Chars("{\"language\": \"Spanish\", \"tags\": [\"a\", \"b\", \"c\"]}")),
      Completion(Chars("I cannot help with that.")),
      Completion(Chars("Sure: {\"line_count\": }")),
      Completion(Chars("{line_count: 3}")),
      ApiError(Chars("Error code: 503")),
      ApiError(Chars("Service Unavailable")),
      ApiError(Chars("Invalid JSON output")),
      ApiError(Chars("CONTEXT TOO BIG")),
      ApiError(Chars("authentication failed")) }

-----------------------------------------------------------------------------
(* Driving extract_metadata_with_retry directly *)

MaxAttempts == 3

RetryPosts == {<<>>, Chars("New Job\nat a startup"), Chars("le chat")}

InitRetry ==
    /\ mode = "retry"
    /\ rPost \in RetryPosts
    /\ rMax \in 0..MaxAttempts
    /\ rAttempt = 0 /\ rPc = "loop" /\ rEvents = <<>>
    /\ rResult = NotCalled /\ rSource = "none"
    /\ IdleFallback /\ IdleSanitize /\ IdleParser /\ IdleBatch

RetryAttempt ==
    /\ mode = "retry"
    /\ \E completion \in Completions : Attempt(completion)
    /\ UNCHANGED <<mode, fallbackVars, sanitizeVars, parserVars, batchVars>>

RetryReturnFallback ==
    /\ mode = "retry"
    /\ ReturnFallback
    /\ UNCHANGED <<mode, fallbackVars, sanitizeVars, parserVars, batchVars>>

NextRetry == RetryAttempt \/ RetryReturnFallback

SpecRetry == InitRetry /\ [][NextRetry]_vars

-----------------------------------------------------------------------------
(* process_posts *)

DictHas(d, k) == \E i \in 1..Len(d.v) : d.v[i].k = k

\* d[k], for a key that is present
DictGet(d, k) == d.v[CHOOSE i \in 1..Len(d.v) : d.v[i].k = k].x

RECURSIVE UpdateEntries(_, _)
UpdateEntries(entries, more) ==
    IF more = <<>> THEN entries
    ELSE UpdateEntries(DictSet(entries, Head(more).k, Head(more).x), Tail(more))

\* {**a, **b}
DictMerge(a, b) == PyDict(UpdateEntries(a.v, b.v))

TextKey == PyStr(Chars("text"))

\* post['text'] evaluates: post is a dict that has the key
HasText(post) == post.t = "dict" /\ DictHas(post, TextKey)

\* post.get('text', '')
GetText(post) == IF DictHas(post, TextKey) THEN DictGet(post, TextKey) ELSE PyStr(<<>>)

\* the except block evaluates: post has .get, and what it returns has .split
HandlerEvaluates(post) == post.t = "dict" /\ GetText(post).t = "str"

\* the except block's post_metadata
HandlerRecord(post) ==
    DictMerge(post, MetadataDict(SplitLinesCount(GetText(post).v), English, <<>>))

ResetRetry ==
    /\ rPost' = <<>> /\ rMax' = 0 /\ rAttempt' = 0 /\ rPc' = "idle"
    /\ rEvents' = <<>> /\ rResult' = NotCalled /\ rSource' = "none"

\* the except block of the loop body, and the continue
HandleItemError ==
    /\ IF HandlerEvaluates(posts[bIdx])
       THEN /\ enriched_posts' = Append(enriched_posts, HandlerRecord(posts[bIdx]))
            /\ bIdx' = bIdx + 1
            /\ bPc' = "next"
       ELSE /\ bPc' = "raised"
            /\ UNCHANGED <<enriched_posts, bIdx>>
    /\ ResetRetry

\* the loop body up to the call of extract_metadata_with_retry
BeginPost ==
    /\ mode = "batch"
    /\ bPc = "next" /\ bIdx <= Len(posts)
    /\ IF HasText(posts[bIdx])
       THEN LET clean_text == clean_unicode(DictGet(posts[bIdx], TextKey))
            IN  /\ posts' = [posts EXCEPT ![bIdx] =
                                 PyDict(DictSet(posts[bIdx].v, TextKey, clean_text))]
                /\ rPost' = clean_text.v
                /\ rMax' = DefaultMaxRetries
                /\ rAttempt' = 0 /\ rPc' = "loop" /\ rEvents' = <<>>
                /\ rResult' = NotCalled /\ rSource' = "none"
                /\ bPc' = "retry"
                /\ UNCHANGED <<bIdx, enriched_posts>>
       ELSE HandleItemError /\ UNCHANGED posts
    /\ UNCHANGED <<mode, bInput, bSaved, fallbackVars, sanitizeVars, parserVars>>

BatchAttempt ==
    /\ mode = "batch" /\ bPc = "retry"
    /\ \E completion \in Completions : Attempt(completion)
    /\ UNCHANGED <<mode, batchVars, fallbackVars, sanitizeVars, parserVars>>

BatchReturnFallback ==
    /\ mode = "batch" /\ bPc = "retry"
    /\ ReturnFallback
    /\ UNCHANGED <<mode, batchVars, fallbackVars, sanitizeVars, parserVars>>

\* the loop body after the call: the merge and the append
FinishPost ==
    /\ mode = "batch"
    /\ bPc = "retry" /\ rPc \in {"done", "raised"}
    /\ IF rPc = "done" /\ rResult.t = "dict"
       THEN /\ enriched_posts' = Append(enriched_posts, DictMerge(posts[bIdx], rResult))
            /\ bIdx' = bIdx + 1
            /\ bPc' = "next"
            /\ ResetRetry
       ELSE HandleItemError
    /\ UNCHANGED <<mode, bInput, posts, bSaved, fallbackVars, sanitizeVars, parserVars>>

\* after the loop: write_json_safely(enriched_posts, ...) and the return
WriteOutput ==
    /\ mode = "batch"
    /\ bPc = "next" /\ bIdx > Len(posts)
    /\ bSaved' = clean_data_recursively(PyList(enriched_posts))
    /\ bPc' = "written"
    /\ UNCHANGED <<mode, bInput, posts, bIdx, enriched_posts, retryVars,
                   fallbackVars, sanitizeVars, parserVars>>

-----------------------------------------------------------------------------
(* Driving process_posts: the raw file holds any JSON list *)

MaxPosts == 2

ItemPool ==
    { PyDict(<< Entry(PyStr(Chars("id")), PyInt(1)),
                Entry(PyStr(Chars("tags")), PyStr(Chars("old"))),
                Entry(TextKey, PyStr(Chars("New Job"))) >>),
      PyDict(<< Entry(TextKey, PyStr(<<"a", HiSurrogate, "\n">>)) >>),
      PyDict(<< Entry(PyStr(Chars("id")), PyInt(1)) >>),
      PyDict(<< Entry(TextKey, PyInt(7)) >>),
      PyStr(Chars("oops")) }

Init ==
    /\ mode = "batch"
    /\ bInput \in UNION {[1..n -> ItemPool] : n \in 0..MaxPosts}
    /\ posts = bInput
    /\ bIdx = 1 /\ bPc = "next"
    /\ enriched_posts = <<>> /\ bSaved = NotCalled
    /\ IdleRetry /\ IdleFallback /\ IdleSanitize /\ IdleParser

Next ==
    \/ BeginPost
    \/ BatchAttempt
    \/ BatchReturnFallback
    \/ FinishPost
    \/ WriteOutput

Spec == Init /\ [][Next]_vars

-----------------------------------------------------------------------------
(* Properties *)

Min(a, b) == IF a < b THEN a ELSE b

IsCallEvent(e) == e.ev = "call"
IsSleepEvent(e) == e.ev = "sleep"

RetryableSubstrings ==
    { Chars("503"), Chars("service unavailable"), Chars("invalid json output"),
      Chars("expecting value"), Chars("context too big") }

\* the message contains one of the retryable substrings, case-insensitively
RetryableError(msg) == \E k \in RetryableSubstrings : Contains(Lower(msg), k)

FailedCall(e) == IsCallEvent(e) /\ ~e.ok

LastEvent == rEvents[Len(rEvents)]

\* C1: extract_metadata_with_retry never raises and always comes to a return:
\* a successful extractor call is the last thing the function does and its
\* value is what is returned; when no call succeeds the return value is
\* get_fallback_metadata(post).  No more than max_retries calls and
\* max_retries sleeps are made, so the loop ends.
C1_RetryAlwaysReturns ==
    mode = "retry" =>
        /\ rPc # "raised"
        /\ rAttempt <= rMax
        /\ Len(SelectSeq(rEvents, IsCallEvent)) <= rMax
        /\ Len(rEvents) <= 2 * rMax
        /\ \A i \in 1..Len(rEvents) :
              IsCallEvent(rEvents[i]) /\ rEvents[i].ok
                  => i = Len(rEvents) /\ rPc = "done"
        /\ rPc = "done" =>
              IF rEvents # <<>> /\ LastEvent.ok
              THEN rResult = LastEvent.value
              ELSE rResult = get_fallback_metadata(rPost)

\* C1 witness: a retryable failure, the backoff, then a success that is returned
C1_Witness ==
    /\ mode = "retry" /\ rPc = "done" /\ rSource = "model"
    /\ Len(rEvents) = 3 /\ FailedCall(rEvents[1]) /\ IsSleepEvent(rEvents[2])

RECURSIVE TotalSleep(_)
TotalSleep(events) ==
    IF events = <<>> THEN 0 ELSE Head(events).d + TotalSleep(Tail(events))

AllCallsFailRetryable ==
    \A i \in 1..Len(rEvents) :
        IsCallEvent(rEvents[i]) => ~rEvents[i].ok /\ RetryableError(rEvents[i].msg)

\* C4: when every attempt fails with a retryable error, a call with
\* max_retries = n >= 1 makes n extractor calls with one sleep of 5 * 2^a
\* seconds after failed attempt a = 0..n-2, none after the last attempt, and
\* returns get_fallback_metadata(post); for n = 3 the sleeps add up to 15.
C4_ExhaustionBackoff ==
    (mode = "retry" /\ rPc = "done" /\ rMax >= 1 /\ AllCallsFailRetryable) =>
        /\ Len(rEvents) = 2 * rMax - 1
        /\ \A a \in 0..(rMax - 1) : IsCallEvent(rEvents[2 * a + 1])
        /\ \A a \in 0..(rMax - 2) :
              IsSleepEvent(rEvents[2 * a + 2]) /\ rEvents[2 * a + 2].d = 5 * (2 ^ a)
        /\ rResult = get_fallback_metadata(rPost)
        /\ rSource = "fallback"
        /\ rMax = 3 => TotalSleep(rEvents) = 5 + 10

\* C4 witness: three attempts, all failed with a retryable error, then the return
C4_Witness ==
    /\ mode = "retry" /\ rPc = "done" /\ rMax = 3 /\ AllCallsFailRetryable
    /\ Len(SelectSeq(rEvents, IsCallEvent)) = 3

FatalCall(e) == FailedCall(e) /\ ~RetryableError(e.msg)

\* C5: a failed attempt whose message holds no retryable substring is the
\* last event of the call (no later attempt, no sleep), and the call returns
\* get_fallback_metadata(post).
C5_FastFail ==
    mode = "retry" =>
        \A i \in 1..Len(rEvents) :
            FatalCall(rEvents[i]) =>
                /\ i = Len(rEvents)
                /\ rPc \in {"break", "done"}
                /\ rPc = "done" =>
                      rSource = "fallback" /\ rResult = get_fallback_metadata(rPost)

\* C5 witness: a non-retryable failure on the second attempt, after a retryable one
C5_Witness ==
    /\ mode = "retry" /\ rPc = "done"
    /\ Len(rEvents) = 3 /\ FailedCall(rEvents[1]) /\ FatalCall(rEvents[3])

-----------------------------------------------------------------------------

MetadataKeys ==
    {PyStr(Chars("line_count")), PyStr(Chars("language")), PyStr(Chars("tags"))}

\* what input item i leaves in output record out
BuiltFrom(out, item) ==
    /\ out.t = "dict"
    /\ item.t = "dict" =>
          \A j \in 1..Len(item.v) :
              item.v[j].k \notin MetadataKeys =>
                  /\ DictHas(out, item.v[j].k)
                  /\ DictGet(out, item.v[j].k) =
                        IF item.v[j].k = TextKey THEN clean_unicode(item.v[j].x)
                        ELSE item.v[j].x

\* C2: process_posts never raises, whatever the items of the input list are,
\* and returns one record per input item, record i built from item i.
C2_BatchCompletes ==
    mode = "batch" =>
        /\ bPc # "raised"
        /\ bPc = "written" =>
              /\ Len(enriched_posts) = Len(bInput)
              /\ \A i \in 1..Len(bInput) : BuiltFrom(enriched_posts[i], bInput[i])

Categories ==
    << Chars("career"), Chars("business"), Chars("tech"), Chars("leadership"),
       Chars("marketing"), Chars("networking") >>

CategorySet == {Categories[i] : i \in 1..Len(Categories)}

\* line_count, language and tags are present and of the Metadata schema
SchemaValid(d) ==
    /\ d.t = "dict"
    /\ \A k \in MetadataKeys : DictHas(d, k)
    /\ LET line_count == DictGet(d, PyStr(Chars("line_count")))
           language == DictGet(d, PyStr(Chars("language")))
           tags == DictGet(d, PyStr(Chars("tags")))
       IN  /\ line_count.t = "int" /\ line_count.v >= 0
           /\ language \in {PyStr(English), PyStr(French)}
           /\ tags.t = "list" /\ Len(tags.v) <= 2
           /\ \A i \in 1..Len(tags.v) :
                 tags.v[i].t = "str" /\ tags.v[i].v \in CategorySet

\* C3: every metadata dict the retry call returns, from the model path or
\* the fallback path, and every record of the output list, has line_count,
\* language and tags of the Metadata schema.
C3_MetadataSchema ==
    mode = "batch" =>
        /\ rPc = "done" => SchemaValid(rResult)
        /\ \A i \in 1..Len(enriched_posts) : SchemaValid(enriched_posts[i])

-----------------------------------------------------------------------------

\* C6: when the text holds a code block, labelled json or not, that wraps one
\* object, extract_json_from_text returns that object, whatever else stands
\* outside the block.
C6_FencedObjectReturned ==
    (mode = "parser" /\ pOut # NotCalled /\ pFenced # None) => pOut = pFenced

-----------------------------------------------------------------------------

FallbackTags == DictGet(fOut, PyStr(Chars("tags"))).v
FallbackLanguage == DictGet(fOut, PyStr(Chars("language"))).v

\* the trigger substrings of a category
Triggers(category) ==
    linkedin_keywords[CHOOSE i \in 1..Len(linkedin_keywords) :
                          linkedin_keywords[i].tag = category].keywords

\* the categories, in table order, one of whose triggers occurs in the text
MatchingCategories(text) ==
    LET lowered == Lower(text)
        Hit(category) ==
            \E j \in 1..Len(Triggers(category)) :
                Contains(lowered, Triggers(category)[j])
    IN  SelectSeq(Categories, Hit)

\* C7: the fallback tags are the first min(2, m) of the m matching
\* categories, in table order: unique, at most 2, exactly 2 when 4 match.
C7_TagsFirstTwoMatches ==
    (mode = "fallback" /\ fOut # NotCalled) =>
        LET matching == MatchingCategories(fText)
        IN  /\ FallbackTags =
                  [i \in 1..Min(2, Len(matching)) |-> PyStr(matching[i])]
            /\ \A i, j \in 1..Len(FallbackTags) :
                  i # j => FallbackTags[i] # FallbackTags[j]
            /\ Len(matching) >= 4 => Len(FallbackTags) = 2

\* C7 witness: a text that matches four or more categories has been tagged
C7_Witness ==
    /\ mode = "fallback" /\ fOut # NotCalled
    /\ Len(MatchingCategories(fText)) >= 4
    /\ Len(FallbackTags) = 2

LowerChars == {SubSeq(LowerCase, i, i) : i \in 1..Len(LowerCase)}

IsLetter(c) == c \in LowerChars \cup UpperChars

\* word w stands at index i of s as a whole word token
TokenAt(s, i, w) ==
    /\ i + Len(w) - 1 <= Len(s)
    /\ \A j \in 1..Len(w) : s[i + j - 1] = w[j]
    /\ i = 1 \/ ~IsLetter(s[i - 1])
    /\ i + Len(w) > Len(s) \/ ~IsLetter(s[i + Len(w)])

\* the number of word tokens of the lowercased text that are French function words
FrenchTokenCount(text) ==
    LET lowered == Lower(text)
    IN  Cardinality({i \in 1..Len(text) :
                        \E j \in 1..Len(french_words) :
                            TokenAt(lowered, i, french_words[j])})

\* C8: the fallback language is French exactly when more than 3 of the
\* text's lowercase word tokens are French function words.
C8_LanguageByTokenCount ==
    (mode = "fallback" /\ fOut # NotCalled) =>
        (FallbackLanguage = French <=> FrenchTokenCount(fText) > 3)

-----------------------------------------------------------------------------

RECURSIVE HasSurrogate(_)
\* some str of the value, a dict key included, holds a surrogate code unit
HasSurrogate(x) ==
    CASE x.t = "str" -> \E i \in 1..Len(x.v) : x.v[i] \in Surrogates
      [] x.t \in {"list", "tuple"} -> \E i \in 1..Len(x.v) : HasSurrogate(x.v[i])
      [] x.t = "dict" ->
            \E i \in 1..Len(x.v) : HasSurrogate(x.v[i].k) \/ HasSurrogate(x.v[i].x)
      [] OTHER -> FALSE

\* C9: clean_data_recursively returns a value for every input, leaves no
\* surrogate code unit in any str of it, and cleaning that value again
\* changes nothing.
C9_SanitizeIdempotent ==
    mode = "sanitize" =>
        /\ sOnce # NotCalled =>
              sOnce.t \in {"str", "int", "none", "list", "dict"} /\ ~HasSurrogate(sOnce)
        /\ sTwice # NotCalled => sTwice = sOnce

\* C9 witness: a mapping with surrogates in it has been cleaned twice
C9_Witness ==
    /\ mode = "sanitize" /\ sTwice # NotCalled
    /\ sIn.t = "dict" /\ HasSurrogate(sIn) /\ sOnce # sIn

\* C10: cleaning a mapping keeps one entry per input entry, the cleaned key
\* of each with the cleaned value of that same entry.
C10_MappingEntriesPreserved ==
    (mode = "sanitize" /\ sOnce # NotCalled /\ sIn.t = "dict") =>
        /\ Len(sOnce.v) = Len(sIn.v)
        /\ \A i \in 1..Len(sIn.v) :
              sOnce.v[i] = Entry(clean_unicode(PyStr(BuiltinStr(sIn.v[i].k))),
                                 clean_data_recursively(sIn.v[i].x))

=============================================================================
